---- MODULE Spec2Model ----
(***************************************************************************)
(* Model of the sync-run route of the console                              *)
(* (webapps/console/lib/store/index.tsx, lines 325-561): the handler that   *)
(* authorizes a request, resolves the sync link, refuses to start a sync    *)
(* that has a RUNNING task, loads the checkpoint state, resolves the        *)
(* catalog and dispatches a read task to the sync controller.               *)
(*                                                                         *)
(* Every request is one invocation of the handler; its awaits are the      *)
(* points where other requests and the sync controller may interleave.     *)
(* Strings that the code takes apart (the Authorization header, the stream *)
(* keys) are sequences of atoms: an atom is either a word or a separator   *)
(* such as "." and "Bearer ".                                              *)
(***************************************************************************)
EXTENDS Integers, Sequences, FiniteSets, TLC

VARIABLES
  env,            \* process.env: SYNCCTL_AUTH_KEY, SYNCCTL_URL
  links,          \* table configurationObjectLink (with the joined "from" service)
  source_task,    \* table source_task: rows [task_id, sync_id, status]
  source_state,   \* table source_state: rows [sync_id, stream, state]
  source_catalog, \* table source_catalog: rows [key, package, version, catalog]
  req,            \* the handler invocations: locals, position and result of each
  dispatches,     \* the calls POST <SYNCCTL_URL>/read each request has issued,
                  \* each with what it came to
  raced,          \* history: syncIds for which a request passed the RUNNING check
                  \* while another had passed it and not dispatched yet
  authz,          \* one evaluation of the route's authorization: the header, the
                  \* session user and what came of them
  updater,        \* one mounted useConfigObjectsUpdater: its state, its closure
                  \* variables, its interval and the requests it has in flight
  fetcher         \* one call of the function jsonFetcher returns: its options,
                  \* the request it made, the response and the outcome

vars == <<env, links, source_task, source_state, source_catalog, req, dispatches,
          raced, authz, updater, fetcher>>

(***************************************************************************)
(* Bounds                                                                  *)
(***************************************************************************)
\* number of handler invocations in one behaviour
MaxReq == 2

\* longest stream key of a checkpoint row, in "."-separated segments
MaxSegments == 3

\* most checkpoint rows a sync starts with
MaxRows == 2

\* most streams in a stored catalog
MaxStreams == 2

Reqs == 1..MaxReq

(***************************************************************************)
(* JSON values. undefined and null are values of their own; Truthy is      *)
(* JavaScript's ToBoolean on them.                                         *)
(***************************************************************************)
Undefined == [t |-> "undefined"]
Null == [t |-> "null"]
JObj(v) == [t |-> "obj", v |-> v]
JArr(s) == [t |-> "arr", v |-> s]
JStr(s) == [t |-> "str", v |-> s]
JBool(b) == [t |-> "bool", v |-> b]
\* a function object, such as the ones every object inherits
JFun(name) == [t |-> "fun", v |-> name]

Truthy(x) ==
  /\ x.t \notin {"undefined", "null"}
  /\ ~(x.t = "num" /\ x.v = 0)
  /\ ~(x.t = "str" /\ x.v = <<>>)
  /\ ~(x.t = "bool" /\ x.v = FALSE)

(***************************************************************************)
(* Small helpers on sequences and functions                                *)
(***************************************************************************)
Range(f) == {f[i] : i \in DOMAIN f}

\* properties that an object parsed from JSON inherits from Object.prototype
ObjectPrototypeKeys == {<<"constructor">>, <<"toString">>, <<"valueOf">>}

\* obj[k] of a JavaScript object kept as a function: the own property, else the
\* inherited one, else undefined
Lookup(obj, k) ==
  IF k \in DOMAIN obj THEN obj[k]
  ELSE IF k \in ObjectPrototypeKeys THEN JFun(k)
  ELSE Undefined

\* all the orders in which the rows of a set can be returned
Orderings(S) ==
  {q \in [1..Cardinality(S) -> S] : \A i, j \in DOMAIN q : i # j => q[i] # q[j]}

(***************************************************************************)
(* The stored data the requests run against                                *)
(***************************************************************************)
\* the source service that the links of workspace w1 read from
Service1 ==
  [id |-> "svc1", workspaceId |-> "w1",
   config |-> [package |-> "p1", version |-> "v1", credentials |-> "stored"]]

\* the stream selection of a sync (sync.data.streams): stream key -> directive
Selection1 ==
  (<<"a">> :> JObj([sync_mode |-> "incremental"]))
  @@ (<<"ns", ".", "b">> :> JObj([sync_mode |-> "full_refresh",
                                   destination_sync_mode |-> "append"]))

\* a row of configurationObjectLink with its joined "from" service: a sync
\* link of workspace w1 that reads from Service1 with the catalog key1
Link(id) ==
  [id |-> id, workspaceId |-> "w1", deleted |-> FALSE, type |-> "sync",
   fromId |-> "svc1", from |-> Service1,
   data |-> [storageKey |-> "key1", streams |-> Selection1]]

\* what the row of sync s1 may be: a runnable link, a soft-deleted one, a link
\* that is not a sync, one whose service is gone, one whose catalog is not stored
RunnableLink == Link("s1")
BrokenLinks ==
  { [Link("s1") EXCEPT !.deleted = TRUE],
    [Link("s1") EXCEPT !.type = "push"],
    [Link("s1") EXCEPT !.from = Null],
    [Link("s1") EXCEPT !.data.storageKey = "key2"] }

Query(workspaceId, syncId, fullSync) ==
  [workspaceId |-> workspaceId, syncId |-> syncId, fullSync |-> fullSync]

\* the queries a request may carry: sync s1 with each value of fullSync (the
\* parameter is an optional string), s1 asked for from another workspace, and
\* an id that no link has
Queries ==
  { Query("w1", "s1", "false"), Query("w1", "s1", "true"), Query("w1", "s1", "1"),
    Query("w2", "s1", "true"), Query("w1", "s9", "1") }

\* a catalog captured for (key1, p1, v1): streams a, ns.b and c
Catalog1 ==
  [streams |-> <<[name |-> JStr(<<"a">>), namespace |-> Undefined],
                 [name |-> JStr(<<"b">>), namespace |-> JStr(<<"ns">>)],
                 [name |-> JStr(<<"c">>), namespace |-> Undefined]>>]

CatalogRows ==
  {[key |-> "key1", package |-> "p1", version |-> "v1", catalog |-> Catalog1]}

StateRow(sync, stream, blob) == [sync_id |-> sync, stream |-> stream, state |-> blob]

\* the contents source_state may start with for sync s1
StateScenarios ==
  { {StateRow("s1", <<"_LEGACY_STATE">>, JObj("legacy"))},
    {StateRow("s1", <<"customers">>, JObj("c7")),
     StateRow("s1", <<"ns1", ".", "orders">>, JObj("o3"))},
    {StateRow("s1", <<"customers">>, JObj("c7")),
     StateRow("s1", <<"a", ".", "b", ".", "c">>, JObj("x"))} }

\* the checkpoint of another sync, s2; it is in every starting state
OtherStateRows == {StateRow("s2", <<"_GLOBAL_STATE">>, JObj("g2"))}

TaskRow(id, sync, status) == [task_id |-> id, sync_id |-> sync, status |-> status]

\* the contents source_task starts with: a RUNNING task of sync s1
InitialTasks == {TaskRow(-1, "s1", "RUNNING")}

(***************************************************************************)
(* The stored data of one run: checkpoints, catalogs and selections drawn   *)
(* from bounded sets                                                        *)
(***************************************************************************)
\* the sequences of at most n different elements of S
SeqsNoRepeat(S, n) ==
  UNION {{q \in [1..k -> S] : \A i, j \in 1..k : i # j => q[i] # q[j]} : k \in 0..n}

SegWords == <<"a", "b", "c", "d", "e">>

\* a stream key of n segments: "customers", "ns1.orders", "a.b.c", "a.b.c.d"
KeyOf(n) ==
  IF n = 1 THEN <<"customers">>
  ELSE IF n = 2 THEN <<"ns1", ".", "orders">>
  ELSE [i \in 1..(2 * n - 1) |-> IF i % 2 = 1 THEN SegWords[(i + 1) \div 2] ELSE "."]

\* the stream keys a checkpoint row may have: the two reserved ones and the
\* keys of one to MaxSegments segments
StreamKeys ==
  {<<"_LEGACY_STATE">>, <<"_GLOBAL_STATE">>} \cup {KeyOf(n) : n \in 1..MaxSegments}

\* the blobs a checkpoint row may hold (the column is JSON): an object, false
Blobs == {JObj("blob"), JBool(FALSE)}

\* the checkpoints sync s1 may start with: at most MaxRows rows, no two with
\* the same stream key (sync_id, stream is the key of the table)
RowSets ==
  {rows \in SUBSET {StateRow("s1", k, b) : k \in StreamKeys, b \in Blobs} :
     /\ Cardinality(rows) <= MaxRows
     /\ \A x, y \in rows : x.stream = y.stream => x = y}

\* the streams a stored catalog may list
StreamUniverse ==
  { [name |-> JStr(<<"a">>), namespace |-> Undefined],
    [name |-> JStr(<<"b">>), namespace |-> JStr(<<"ns">>)],
    [name |-> JStr(<<"c">>), namespace |-> Null],
    [name |-> JStr(<<"constructor">>), namespace |-> Undefined] }

Catalogs == {[streams |-> q] : q \in SeqsNoRepeat(StreamUniverse, MaxStreams)}

\* what a selection may hold for a stream key: directives, one of them with a
\* destination_sync_mode and a stream field of its own, and null
Directives ==
  { JObj([sync_mode |-> "incremental"]),
    JObj([sync_mode |-> "full_refresh", destination_sync_mode |-> "append",
          stream |-> "own"]),
    Null }

\* the keys a selection may have; no catalog has a stream "zz"
SelectionKeys == {<<"a">>, <<"ns", ".", "b">>, <<"zz">>}

Selections == UNION {[S -> Directives] : S \in SUBSET SelectionKeys}

\* process.env of the console: the shared secret and the sync controller's URL
EnvConfigured == [SYNCCTL_AUTH_KEY |-> <<"k1">>, SYNCCTL_URL |-> JStr(<<"http://syncctl">>)]
EnvNoSecret == [SYNCCTL_AUTH_KEY |-> <<>>, SYNCCTL_URL |-> JStr(<<"http://syncctl">>)]
EnvNoUrl == [SYNCCTL_AUTH_KEY |-> <<"k1">>, SYNCCTL_URL |-> Undefined]

\* the Authorization headers a request may carry (absent is the empty string)
Tokens ==
  { <<>>, <<"k1">>, <<"Bearer ", "k1">>, <<"Bearer ", "k2">>, <<"Bearer ">> }

\* the session users getUser may find, and the workspaces each may access
User(id) == [t |-> "user", id |-> id]
SessionUsers == {Undefined, User("alice"), User("bob")}
WorkspaceAccess == ("alice" :> {"w1"}) @@ ("bob" :> {})

(***************************************************************************)
(* Pure functions of the handler                                           *)
(***************************************************************************)
\* index of the first occurrence of atom a in s, 0 when there is none
IndexOf(s, a) ==
  IF \E i \in 1..Len(s) : s[i] = a
  THEN CHOOSE i \in 1..Len(s) : s[i] = a /\ \A j \in 1..(i - 1) : s[j] # a
  ELSE 0

\* String.prototype.replace(pattern, "") with a string pattern: drops the
\* first occurrence of the pattern and nothing else
ReplaceFirst(s, a) ==
  LET i == IndexOf(s, a)
  IN IF i = 0 THEN s ELSE SubSeq(s, 1, i - 1) \o SubSeq(s, i + 1, Len(s))

\* String.prototype.split(sep): the pieces between the separators
RECURSIVE Split(_, _)
Split(s, sep) ==
  LET i == IndexOf(s, sep)
  IN IF i = 0 THEN <<s>>
     ELSE <<SubSeq(s, 1, i - 1)>> \o Split(SubSeq(s, i + 1, Len(s)), sep)

\* line 367 without its "|| !token || !syncAuthKey"
SecretRejectedLoose(token, syncAuthKey) ==
  ReplaceFirst(token, "Bearer ") # syncAuthKey

\* the condition of line 367: TRUE when the shared secret does not authorize
\* the request and the user session has to
SecretRejected(token, syncAuthKey) ==
  \/ ReplaceFirst(token, "Bearer ") # syncAuthKey
  \/ token = <<>>
  \/ syncAuthKey = <<>>

\* line 429 without its second disjunct
IsFullSyncTrueOnly(query) == query.fullSync = "true"

\* query.fullSync === "true" || query.fullSync === "1"
IsFullSync(query) == query.fullSync = "true" \/ query.fullSync = "1"

\* lines 384-389 without "deleted: false"
MatchingLinksWithDeleted(query) ==
  {l \in Range(links) : /\ l.id = query.syncId
                        /\ l.workspaceId = query.workspaceId
                        /\ l.type = "sync"}

\* findFirst on configurationObjectLink: the rows that match the where clause
MatchingLinks(query) ==
  {l \in Range(links) : /\ l.id = query.syncId
                        /\ l.workspaceId = query.workspaceId
                        /\ l.deleted = FALSE
                        /\ l.type = "sync"}

\* lines 401-404 with the status misspelt, so that no row matches
RunningTasksWrongCase(syncId) ==
  {t \in source_task : t.sync_id = syncId /\ t.status = "running"}

\* findFirst on source_task: the RUNNING rows of the sync
RunningTasks(syncId) ==
  {t \in source_task : t.sync_id = syncId /\ t.status = "RUNNING"}

\* a deleteMany / findMany that leaves the where clause out
StateRowsOfAnySync(syncId) == source_state

\* the where clause of lines 430-441 narrowed to the legacy row
StateRowsOfLegacyOnly(syncId) ==
  {r \in source_state : r.sync_id = syncId /\ r.stream = <<"_LEGACY_STATE">>}

\* the rows of source_state that belong to the sync
StateRowsOf(syncId) == {r \in source_state : r.sync_id = syncId}

\* lines 462-469 with every key of two or more segments taken as namespace.name
InvalidStreamNameNever(r) == Len(Split(r.stream, ".")) < 1

\* TRUE when decoding the row throws "Invalid stream name"
InvalidStreamName(r) == Len(Split(r.stream, ".")) \notin {1, 2}

\* lines 462-476 with name and namespace the wrong way round
StreamEntrySwapped(r) ==
  LET descr == Split(r.stream, ".")
      name == JStr(descr[1])
      namespace == IF Len(descr) = 1 THEN Undefined ELSE JStr(descr[2])
  IN [type |-> "STREAM",
      stream |-> [stream_descriptor |-> [name |-> name, namespace |-> namespace],
                  stream_state |-> r.state]]

\* the STREAM entry of one per-stream row
StreamEntry(r) ==
  LET descr == Split(r.stream, ".")
      name == IF Len(descr) = 1 THEN JStr(descr[1]) ELSE JStr(descr[2])
      namespace == IF Len(descr) = 1 THEN Undefined ELSE JStr(descr[1])
  IN [type |-> "STREAM",
      stream |-> [stream_descriptor |-> [name |-> name, namespace |-> namespace],
                  stream_state |-> r.state]]

IsSentinel(r) == r.stream = <<"_LEGACY_STATE">> \/ r.stream = <<"_GLOBAL_STATE">>

\* a filter that keeps every row
NonSentinelKeepAll(rows) == rows

\* Array.prototype.filter keeping the rows that are not sentinel rows
RECURSIVE NonSentinel(_)
NonSentinel(rows) ==
  IF rows = <<>> THEN <<>>
  ELSE IF IsSentinel(Head(rows)) THEN NonSentinel(Tail(rows))
       ELSE <<Head(rows)>> \o NonSentinel(Tail(rows))

\* TRUE when decoding the rows (as findMany returned them) throws
DecodeThrows(stateRows) ==
  /\ Len(stateRows) > 0
  /\ ~(Len(stateRows) = 1 /\ IsSentinel(stateRows[1]))
  /\ \E i \in DOMAIN NonSentinel(stateRows) : InvalidStreamName(NonSentinel(stateRows)[i])

\* stateObj for the rows findMany returned, when decoding does not throw
DecodeState(stateRows) ==
  IF Len(stateRows) = 0 THEN Undefined
  ELSE IF Len(stateRows) = 1 /\ stateRows[1].stream = <<"_LEGACY_STATE">>
       THEN stateRows[1].state
  ELSE IF Len(stateRows) = 1 /\ stateRows[1].stream = <<"_GLOBAL_STATE">>
       THEN JArr(<<[type |-> "GLOBAL", global |-> stateRows[1].state]>>)
  ELSE LET kept == NonSentinel(stateRows)
       IN JArr([i \in DOMAIN kept |-> StreamEntry(kept[i])])

\* lines 534-547 with the query on package and version alone
catalogFromDbAnyKey(packageName, version, storageKey) ==
  LET rows == {c \in source_catalog : /\ c.package = packageName
                                      /\ c.version = version}
  IN IF Cardinality(rows) = 1 THEN (CHOOSE c \in rows : TRUE).catalog ELSE Null

\* catalogFromDb: the catalog when exactly one row has the key, else null
catalogFromDb(packageName, version, storageKey) ==
  LET rows == {c \in source_catalog : /\ c.key = storageKey
                                      /\ c.package = packageName
                                      /\ c.version = version}
  IN IF Cardinality(rows) = 1 THEN (CHOOSE c \in rows : TRUE).catalog ELSE Null

\* the key under which a catalog stream is selected
StreamKey(s) ==
  IF Truthy(s.namespace) THEN s.namespace.v \o <<".">> \o s.name.v ELSE s.name.v

\* lines 554-558 with the directive spread last, so that its fields win
ConfiguredStreamDirectiveWins(directive, s) ==
  LET own == IF directive.t = "obj" THEN directive.v ELSE <<>>
      fixed == [destination_sync_mode |-> "overwrite", stream |-> s]
  IN [f \in DOMAIN own \cup DOMAIN fixed |->
        IF f \in DOMAIN own THEN own[f] ELSE fixed[f]]

\* {...stream, destination_sync_mode: "overwrite", stream: s}
ConfiguredStream(directive, s) ==
  LET own == IF directive.t = "obj" THEN directive.v ELSE <<>>
      fixed == [destination_sync_mode |-> "overwrite", stream |-> s]
  IN [f \in DOMAIN own \cup DOMAIN fixed |->
        IF f \in DOMAIN fixed THEN fixed[f] ELSE own[f]]

RECURSIVE SelectedStreams(_, _)
SelectedStreams(streams, selectedStreams) ==
  IF streams = <<>> THEN <<>>
  ELSE LET s == Head(streams)
           rest == SelectedStreams(Tail(streams), selectedStreams)
       IN IF Truthy(Lookup(selectedStreams, StreamKey(s)))
          THEN <<ConfiguredStream(Lookup(selectedStreams, StreamKey(s)), s)>> \o rest
          ELSE rest

selectStreamsFromCatalog(catalog, selectedStreams) ==
  [streams |-> SelectedStreams(catalog.streams, selectedStreams)]

(***************************************************************************)
(* Collaborators whose code is outside this file                           *)
(***************************************************************************)
\* the authorization contract: the shared secret validates when one is
\* configured and the header, with or without "Bearer ", is that secret; the
\* user validates when there is a session user with access to the workspace
CredentialValidates(token, user, workspaceId) ==
  \/ /\ env.SYNCCTL_AUTH_KEY # <<>>
     /\ token \in {env.SYNCCTL_AUTH_KEY, <<"Bearer ">> \o env.SYNCCTL_AUTH_KEY}
  \/ /\ user # Undefined
     /\ workspaceId \in WorkspaceAccess[user.id]

\* verifyAccess(user, workspaceId) throws unless the user may access the workspace
VerifyAccessThrows(user, workspaceId) == workspaceId \notin WorkspaceAccess[user.id]

\* requireDefined(v, msg) throws when v is undefined or null
RequireDefinedThrows(v) == v = Undefined \/ v = Null

\* syncError(log, message, error, mask, ...privateArgs): logs, and returns the
\* failure result; it is handed neither the taskId nor the request
syncError(message, e) == [ok |-> FALSE, error |-> <<message, e>>]

\* tryManageOauthCreds(service, req): the config to send, with the credentials
\* resolved; or it throws
CredsOutcomes(service) ==
  { [throws |-> FALSE, config |-> [service EXCEPT !.credentials = "resolved"]],
    [throws |-> TRUE, error |-> "oauth refresh failed"] }

\* what a call of rpc(syncURL + "/read") can come to: the JSON body of a 2xx
\* response (ok, or not ok with or without an error), or a thrown error; and
\* whether the sync controller recorded the task it was asked to start
RpcOutcomes ==
  { [throws |-> FALSE, res |-> [ok |-> TRUE], recorded |-> TRUE],
    [throws |-> FALSE, res |-> [ok |-> FALSE, error |-> <<"boom">>], recorded |-> FALSE],
    [throws |-> FALSE, res |-> [ok |-> FALSE], recorded |-> FALSE],
    [throws |-> TRUE, error |-> "fetch failed", recorded |-> TRUE],
    [throws |-> TRUE, error |-> "fetch failed", recorded |-> FALSE] }

\* an id generator that returns the same id to every caller
randomUUIDFixed(r) == 1

\* randomUUID() as called by request r: ids are only ever compared, and no two
\* calls return the same one, so the id is named after the call
randomUUID(r) == r

\* the status and logs URLs of a task
TaskUrl(kind, workspaceId, taskId, syncId) == <<kind, workspaceId, taskId, syncId>>

(***************************************************************************)
(* The handler                                                             *)
(***************************************************************************)
\* the value of a part of the program that a specification leaves out
NotUsed == [pc |-> "not used"]

Pending == [pending |-> TRUE]

IdleReq ==
  [pc |-> "idle", query |-> [workspaceId |-> "", syncId |-> "", fullSync |-> ""],
   validated |-> TRUE, sync |-> Null, stateObj |-> Undefined,
   configuredCatalog |-> Null, taskId |-> 0, config |-> Null,
   result |-> Pending, fault |-> "", touched |-> {}]

\* the requests for the sync that passed the RUNNING check and have not
\* dispatched yet
InWindow(syncId) ==
  {r \in Reqs : /\ req[r].query.syncId = syncId
                /\ req[r].pc \in {"loadState", "prepare", "dispatch"}}

\* the handler returns res: its locals are gone, the result is the caller's
Returned(rq, res) ==
  [IdleReq EXCEPT !.pc = "returned", !.result = res, !.query = rq.query,
                  !.validated = rq.validated, !.touched = rq.touched]

\* lines 528-530: an exception thrown inside the try block is caught
Caught(rq, e) == Returned(rq, syncError("Error running sync", e))

Touch(rq, what) == [rq EXCEPT !.touched = @ \cup {what}]

\* lines 363-381: a request arrives and is authorized
Authorize(r, query, token, user) ==
  LET rq == [req[r] EXCEPT !.query = query,
                           !.validated = CredentialValidates(token, user, query.workspaceId)]
      thrown(f) == [IdleReq EXCEPT !.pc = "thrown", !.fault = f,
                                   !.validated = rq.validated]
  IN IF SecretRejected(token, env.SYNCCTL_AUTH_KEY) /\ user = Undefined
       THEN thrown("ApiError 401 Authorization Required")
     ELSE IF SecretRejected(token, env.SYNCCTL_AUTH_KEY)
             /\ VerifyAccessThrows(user, query.workspaceId)
       THEN thrown("verifyAccess")
     ELSE IF RequireDefinedThrows(env.SYNCCTL_URL)
       THEN thrown("env SYNCCTL_URL is not set")
     ELSE [rq EXCEPT !.pc = "findSync"]

Request(r) ==
  /\ req[r].pc = "idle"
  /\ IF r = 1 THEN TRUE ELSE req[r - 1].pc # "idle"
  /\ \E query \in Queries, token \in Tokens, user \in SessionUsers :
       req' = [req EXCEPT ![r] = Authorize(r, query, token, user)]
  /\ UNCHANGED <<env, links, source_task, source_state, source_catalog, dispatches,
                 raced>>
  /\ UNCHANGED <<authz, updater, fetcher>>

\* lines 383-399: the sync link is looked up
FindSync(r) ==
  /\ req[r].pc = "findSync"
  /\ LET rq == Touch(req[r], "link.read")
         found == MatchingLinks(rq.query)
     IN IF found = {}
        THEN req' = [req EXCEPT ![r] =
                 Returned(rq, [ok |-> FALSE,
                               error |-> <<"Sync not found", rq.query.syncId>>])]
        ELSE \E sync \in found :
               req' = [req EXCEPT ![r] = [rq EXCEPT !.pc = "findRunning", !.sync = sync]]
  /\ UNCHANGED <<env, links, source_task, source_state, source_catalog, dispatches,
                 raced>>
  /\ UNCHANGED <<authz, updater, fetcher>>

\* lines 407-419 with the handler's own taskId in place of running.task_id
AlreadyRunningOwnId(rq, running) ==
  [ok |-> FALSE, error |-> <<"Sync is already running">>,
   runningTask |->
     [taskId |-> rq.taskId,
      status |-> TaskUrl("tasks", rq.query.workspaceId, rq.taskId, rq.query.syncId),
      logs |-> TaskUrl("logs", rq.query.workspaceId, rq.taskId, rq.query.syncId)]]

\* the result of lines 407-419
AlreadyRunning(rq, running) ==
  [ok |-> FALSE, error |-> <<"Sync is already running">>,
   runningTask |->
     [taskId |-> running.task_id,
      status |-> TaskUrl("tasks", rq.query.workspaceId, running.task_id, rq.query.syncId),
      logs |-> TaskUrl("logs", rq.query.workspaceId, running.task_id, rq.query.syncId)]]

\* lines 400-427: the RUNNING check, then the service of the link
FindRunning(r) ==
  /\ req[r].pc = "findRunning"
  /\ LET rq == Touch(req[r], "task.read")
         syncId == rq.query.syncId
     IN IF RunningTasks(syncId) # {}
        THEN /\ \E running \in RunningTasks(syncId) :
                  req' = [req EXCEPT ![r] = Returned(rq, AlreadyRunning(rq, running))]
             /\ raced' = raced
        ELSE IF rq.sync.from = Null
        THEN /\ req' = [req EXCEPT ![r] =
                          Returned(rq, [ok |-> FALSE, error |-> <<"Service not found">>])]
             /\ raced' = raced
        ELSE /\ req' = [req EXCEPT ![r] = [rq EXCEPT !.pc = "loadState"]]
             /\ raced' = IF InWindow(syncId) # {} THEN raced \cup {syncId} ELSE raced
  /\ UNCHANGED <<env, links, source_task, source_state, source_catalog, dispatches>>
  /\ UNCHANGED <<authz, updater, fetcher>>

\* lines 428-480: fullSync deletes the checkpoint rows of the sync; otherwise
\* they are read, in whatever order findMany returns them, and decoded
LoadState(r) ==
  /\ req[r].pc = "loadState"
  /\ LET syncId == req[r].query.syncId
     IN IF IsFullSync(req[r].query)
        THEN /\ source_state' = source_state \ StateRowsOf(syncId)
             /\ req' = [req EXCEPT ![r] =
                          [Touch(req[r], "state.delete") EXCEPT !.pc = "prepare"]]
        ELSE /\ source_state' = source_state
             /\ \E stateRows \in Orderings(StateRowsOf(syncId)) :
                  LET rq == Touch(req[r], "state.read")
                  IN IF DecodeThrows(stateRows)
                     THEN req' = [req EXCEPT ![r] = Caught(rq, "Invalid stream name")]
                     ELSE req' = [req EXCEPT ![r] =
                                    [rq EXCEPT !.pc = "prepare",
                                               !.stateObj = DecodeState(stateRows)]]
  /\ UNCHANGED <<env, links, source_task, source_catalog, dispatches, raced>>
  /\ UNCHANGED <<authz, updater, fetcher>>

\* lines 482-509 with a failure of tryManageOauthCreds swallowed and the stored
\* config sent instead
PrepareStaleCreds(r) ==
  /\ req[r].pc = "prepare"
  /\ LET rq == Touch(req[r], "catalog.read")
         service == rq.sync.from
         catalog == catalogFromDb(service.config.package, service.config.version,
                                  rq.sync.data.storageKey)
         creds == [package |-> service.config.package,
                   version |-> service.config.version,
                   credentials |-> service.config.credentials,
                   id |-> rq.sync.fromId]
     IN IF catalog = Null
        THEN req' = [req EXCEPT ![r] =
                       Returned(rq, [ok |-> FALSE, error |-> <<"Catalog not found">>])]
        ELSE \E out \in CredsOutcomes(creds) :
               req' = [req EXCEPT ![r] =
                          [Touch(rq, "randomUUID") EXCEPT
                                     !.pc = "dispatch",
                                     !.configuredCatalog =
                                        selectStreamsFromCatalog(catalog, rq.sync.data.streams),
                                     !.taskId = randomUUID(r),
                                     !.config = IF out.throws THEN creds ELSE out.config]]
  /\ UNCHANGED <<env, links, source_task, source_state, source_catalog, dispatches, raced>>
  /\ UNCHANGED <<authz, updater, fetcher>>

\* lines 482-495 and 509: the catalog is looked up and filtered, the taskId
\* generated and the credentials resolved; none of it reads or writes what
\* another request or the sync controller changes, so it is one step
Prepare(r) ==
  /\ req[r].pc = "prepare"
  /\ LET rq == Touch(req[r], "catalog.read")
         service == rq.sync.from
         catalog == catalogFromDb(service.config.package, service.config.version,
                                  rq.sync.data.storageKey)
         creds == [package |-> service.config.package,
                   version |-> service.config.version,
                   credentials |-> service.config.credentials,
                   id |-> rq.sync.fromId]
     IN IF catalog = Null
        THEN req' = [req EXCEPT ![r] =
                       Returned(rq, [ok |-> FALSE, error |-> <<"Catalog not found">>])]
        ELSE \E out \in CredsOutcomes(creds) :
                  IF out.throws
                  THEN req' = [req EXCEPT ![r] =
                          Caught(Touch(rq, "randomUUID"), out.error)]
                  ELSE req' = [req EXCEPT ![r] =
                          [Touch(rq, "randomUUID") EXCEPT
                                     !.pc = "dispatch",
                                     !.configuredCatalog =
                                        selectStreamsFromCatalog(catalog, rq.sync.data.streams),
                                     !.taskId = randomUUID(r),
                                     !.config = out.config]]
  /\ UNCHANGED <<env, links, source_task, source_state, source_catalog, dispatches, raced>>
  /\ UNCHANGED <<authz, updater, fetcher>>

\* lines 378-381: the Authorization header sent to the sync controller
AuthHeaders ==
  IF env.SYNCCTL_AUTH_KEY # <<>>
  THEN [Authorization |-> <<"Bearer ">> \o env.SYNCCTL_AUTH_KEY]
  ELSE <<>>

\* lines 496-513 with the state field always there
ReadRequestAlwaysState(rq) ==
  [method |-> "POST",
   headers |-> AuthHeaders,
   query |-> [package |-> rq.sync.from.config.package,
              version |-> rq.sync.from.config.version,
              taskId |-> rq.taskId,
              syncId |-> rq.query.syncId],
   body |-> [config |-> rq.config, catalog |-> rq.configuredCatalog,
             state |-> rq.stateObj]]

\* lines 496-513: the request sent to the sync controller
ReadRequest(rq) ==
  [method |-> "POST",
   headers |-> AuthHeaders,
   query |-> [package |-> rq.sync.from.config.package,
              version |-> rq.sync.from.config.version,
              taskId |-> rq.taskId,
              syncId |-> rq.query.syncId],
   body |-> IF Truthy(rq.stateObj)
            THEN [config |-> rq.config, catalog |-> rq.configuredCatalog,
                  state |-> rq.stateObj]
            ELSE [config |-> rq.config, catalog |-> rq.configuredCatalog]]

\* lines 514-527 with line 515 leaving the taskId out
ReadResultNoTaskId(rq, res) ==
  IF ~res.ok
  THEN [ok |-> FALSE,
        error |-> IF "error" \in DOMAIN res THEN res.error ELSE <<"unknown error">>]
  ELSE [ok |-> TRUE, taskId |-> rq.taskId,
        status |-> TaskUrl("tasks", rq.query.workspaceId, rq.taskId, rq.query.syncId),
        logs |-> TaskUrl("logs", rq.query.workspaceId, rq.taskId, rq.query.syncId)]

\* lines 514-527: the result for the response of the sync controller
ReadResult(rq, res) ==
  IF ~res.ok
  THEN [ok |-> FALSE,
        error |-> IF "error" \in DOMAIN res THEN res.error ELSE <<"unknown error">>,
        taskId |-> rq.taskId]
  ELSE [ok |-> TRUE, taskId |-> rq.taskId,
        status |-> TaskUrl("tasks", rq.query.workspaceId, rq.taskId, rq.query.syncId),
        logs |-> TaskUrl("logs", rq.query.workspaceId, rq.taskId, rq.query.syncId)]

\* the call of line 496 made again when the first one fails
SentTwice(sent, request, out) ==
  IF out.throws
  THEN sent \o <<[request |-> request, outcome |-> out],
                 [request |-> request, outcome |-> out]>>
  ELSE Append(sent, [request |-> request, outcome |-> out])

\* line 496: the one call of rpc, with what it came to
Sent(sent, request, out) == Append(sent, [request |-> request, outcome |-> out])

\* lines 496-530: the read task is dispatched; the sync controller records a
\* RUNNING task when it takes the request
Dispatch(r) ==
  /\ req[r].pc = "dispatch"
  /\ LET rq == Touch(req[r], "dispatch")
     IN \E out \in RpcOutcomes :
             /\ dispatches' = [dispatches EXCEPT ![r] = Sent(@, ReadRequest(rq), out)]
             /\ source_task' =
                  IF out.recorded
                  THEN source_task \cup {TaskRow(rq.taskId, rq.query.syncId, "RUNNING")}
                  ELSE source_task
             /\ req' = [req EXCEPT ![r] =
                          IF out.throws THEN Caught(rq, out.error)
                          ELSE Returned(rq, ReadResult(rq, out.res))]
  /\ UNCHANGED <<env, links, source_state, source_catalog, raced>>
  /\ UNCHANGED <<authz, updater, fetcher>>

\* a query of the store rejects: the handler's catch turns it into a result
StoreFailure(r) ==
  /\ req[r].pc \in {"findSync", "findRunning", "loadState", "prepare"}
  /\ req' = [req EXCEPT ![r] = Caught(req[r], "store failure")]
  /\ UNCHANGED <<env, links, source_task, source_state, source_catalog, dispatches,
                 raced>>
  /\ UNCHANGED <<authz, updater, fetcher>>

\* the sync controller ends a task it was running; the handler only tells
\* RUNNING from the other statuses, so one of them stands for all
TaskFinish(t) ==
  /\ t \in source_task
  /\ t.status = "RUNNING"
  /\ source_task' = (source_task \ {t}) \cup {[t EXCEPT !.status = "SUCCESS"]}
  /\ UNCHANGED <<env, links, source_state, source_catalog, req, dispatches,
                 raced>>
  /\ UNCHANGED <<authz, updater, fetcher>>

(***************************************************************************)
(* The specification                                                       *)
(***************************************************************************)
Init ==
  /\ \/ /\ env = EnvConfigured
        /\ links = ("s1" :> RunnableLink) @@ ("s2" :> Link("s2"))
        /\ \E rows \in StateScenarios : source_state = rows \cup OtherStateRows
     \/ /\ env = EnvConfigured
        /\ \E link \in BrokenLinks : links = ("s1" :> link) @@ ("s2" :> Link("s2"))
        /\ source_state = {StateRow("s1", <<"customers">>, JObj("c7"))} \cup OtherStateRows
     \/ /\ env \in {EnvNoSecret, EnvNoUrl}
        /\ links = ("s1" :> RunnableLink) @@ ("s2" :> Link("s2"))
        /\ source_state = OtherStateRows
  /\ source_task = InitialTasks
  /\ source_catalog = CatalogRows
  /\ req = [r \in Reqs |-> IdleReq]
  /\ dispatches = [r \in Reqs |-> <<>>]
  /\ raced = {}
  /\ authz = NotUsed /\ updater = NotUsed /\ fetcher = NotUsed

Next ==
  \/ \E r \in Reqs : Request(r)
  \/ \E r \in Reqs : FindSync(r)
  \/ \E r \in Reqs : FindRunning(r)
  \/ \E r \in Reqs : LoadState(r)
  \/ \E r \in Reqs : Prepare(r)
  \/ \E r \in Reqs : Dispatch(r)
  \/ \E r \in Reqs : StoreFailure(r)
  \/ \E t \in source_task : TaskFinish(t)

Spec == Init /\ [][Next]_vars

(***************************************************************************)
(* One run at a time: the first request alone, against each checkpoint,     *)
(* catalog and selection of the bounded sets                                *)
(***************************************************************************)
InitRun ==
  /\ env = EnvConfigured
  /\ \/ /\ \E link \in {RunnableLink, [Link("s1") EXCEPT !.data.storageKey = "key2"]} :
             links = ("s1" :> link) @@ ("s2" :> Link("s2"))
        /\ \E rows \in RowSets : source_state = rows \cup OtherStateRows
        /\ source_catalog = CatalogRows
     \/ /\ \E selection \in Selections :
             links = ("s1" :> [Link("s1") EXCEPT !.data.streams = selection])
                     @@ ("s2" :> Link("s2"))
        /\ source_state = OtherStateRows
        /\ \E catalog \in Catalogs :
             source_catalog =
               {[key |-> "key1", package |-> "p1", version |-> "v1", catalog |-> catalog]}
  /\ source_task = InitialTasks
  /\ req = [r \in Reqs |-> IdleReq]
  /\ dispatches = [r \in Reqs |-> <<>>]
  /\ raced = {}
  /\ authz = NotUsed /\ updater = NotUsed /\ fetcher = NotUsed

NextRun ==
  \/ Request(1)
  \/ FindSync(1)
  \/ FindRunning(1)
  \/ LoadState(1)
  \/ Prepare(1)
  \/ Dispatch(1)
  \/ StoreFailure(1)
  \/ \E t \in source_task : TaskFinish(t)

SpecRun == InitRun /\ [][NextRun]_vars


(***************************************************************************)
(* The authorization of one request, for every header of the bounded set   *)
(***************************************************************************)
MaxTokenLen == 2

\* the Authorization headers of up to MaxTokenLen pieces, each piece the text
\* "Bearer " or a key; the empty sequence is the absent header (line 366)
HeaderPieces == {"Bearer ", "k1", "k2"}
Headers == UNION {[1..n -> HeaderPieces] : n \in 0..MaxTokenLen}

\* a request as it reaches the handler
Arrived(query, token, user) ==
  [pc |-> "arrived", query |-> query, token |-> token, user |-> user,
   getUser |-> FALSE, fault |-> ""]

\* lines 363-377: the handler up to the try block; getUser is called exactly
\* when the condition of line 367 holds
AuthorizeHeader ==
  /\ authz.pc = "arrived"
  /\ authz' = [authz EXCEPT
                 !.pc = "done",
                 !.getUser = SecretRejected(authz.token, env.SYNCCTL_AUTH_KEY),
                 !.fault = Authorize(1, authz.query, authz.token, authz.user).fault]
  /\ UNCHANGED <<env, links, source_task, source_state, source_catalog, req,
                 dispatches, raced, updater, fetcher>>

InitAuth ==
  /\ env \in {EnvConfigured, EnvNoSecret, EnvNoUrl}
  /\ links = ("s1" :> RunnableLink) @@ ("s2" :> Link("s2"))
  /\ source_state = OtherStateRows
  /\ source_task = InitialTasks
  /\ source_catalog = CatalogRows
  /\ req = [r \in Reqs |-> IdleReq]
  /\ dispatches = [r \in Reqs |-> <<>>]
  /\ raced = {}
  /\ \E query \in Queries, token \in Headers, user \in SessionUsers :
       authz = Arrived(query, token, user)
  /\ updater = NotUsed /\ fetcher = NotUsed

NextAuth == AuthorizeHeader

SpecAuth == InitAuth /\ [][NextAuth]_vars


(***************************************************************************)
(* useConfigObjectsUpdater: one run of its effect, from mount to cleanup    *)
(***************************************************************************)
MaxTicks == 3

\* what fullDataRefresh keeps in the query cache: the config lists (one query
\* per config type, loaded alike) and the links
CacheKeys == {"lists", "links"}

\* an entry of the query cache: what set it, and for a refresh the poll it
\* belonged to
SetBy(what, poll) == [by |-> what, poll |-> poll]

\* lines 138-146: the hook is mounted, its effect has run up to the call of
\* initialDataLoad; times are counted in firings of the interval
Mounted ==
  [isMounted |-> TRUE, loading |-> TRUE, error |-> FALSE, aborted |-> FALSE,
   load |-> "pending", interval |-> "none",
   now |-> 0, modifiedSince |-> 0,
   polls |-> <<>>,
   cache |-> [k \in CacheKeys |-> SetBy("nothing", 0)]]

\* what initialDataLoad may come to (61-102): it rejects when the workspace
\* could not be fetched; prefetchQuery keeps the failure of a list or links
\* query to itself, so the promise resolves with that query left empty
LoadOutcomes ==
  {[promise |-> "rejected", loaded |-> {}]}
    \cup {[promise |-> "resolved", loaded |-> ks] : ks \in SUBSET CacheKeys}

\* lines 146-172: initialDataLoad settles; then starts the interval, catch
\* sets the error, finally clears loading
LoadSettles ==
  /\ updater.load = "pending"
  /\ \E out \in LoadOutcomes :
       updater' = [updater EXCEPT
         !.load = out.promise,
         !.cache = [k \in CacheKeys |-> IF k \in out.loaded THEN SetBy("initialDataLoad", 0) ELSE @[k]],
         !.interval = IF out.promise = "resolved" THEN "running" ELSE @,
         !.error = (out.promise = "rejected"),
         !.loading = FALSE]
  /\ UNCHANGED <<env, links, source_task, source_state, source_catalog, req,
                 dispatches, raced, authz, fetcher>>

\* a poll: the if-modified request of one firing of the interval, and the
\* refresh that follows it
Poll(since, mounted) ==
  [since |-> since, mounted |-> mounted, pc |-> "ifModified", reply |-> "none",
   refresh |-> "none"]

\* the callback of the interval without the test of isMounted
IntervalFiresUnchecked ==
  /\ updater.interval = "running"
  /\ updater.now < MaxTicks
  /\ updater' = [updater EXCEPT
       !.now = @ + 1,
       !.polls = Append(@, Poll(updater.modifiedSince, updater.isMounted))]
  /\ UNCHANGED <<env, links, source_task, source_state, source_catalog, req,
                 dispatches, raced, authz, fetcher>>

\* lines 149-155: the interval fires; the callback clears the interval when
\* the hook is unmounted and issues the if-modified request otherwise
IntervalFires ==
  /\ updater.interval = "running"
  /\ updater.now < MaxTicks
  /\ updater' = [updater EXCEPT
       !.now = @ + 1,
       !.interval = IF ~updater.isMounted THEN "cleared" ELSE @,
       !.polls = IF ~updater.isMounted THEN @
                   ELSE Append(@, Poll(updater.modifiedSince, updater.isMounted))]
  /\ UNCHANGED <<env, links, source_task, source_state, source_catalog, req,
                 dispatches, raced, authz, fetcher>>

\* lines 153-165: the if-modified request of poll i settles; a rejection ends
\* the callback (nothing catches it), modified starts the refresh
IfModifiedSettles(i) ==
  /\ i \in DOMAIN updater.polls
  /\ updater.polls[i].pc = "ifModified"
  /\ \E reply \in {"modified", "not modified", "rejected"} :
       updater' = [updater EXCEPT
         !.polls[i].reply = reply,
         !.polls[i].pc = IF reply = "modified" THEN "refresh" ELSE "done",
         !.modifiedSince = IF reply = "modified" THEN updater.now ELSE @]
  /\ UNCHANGED <<env, links, source_task, source_state, source_catalog, req,
                 dispatches, raced, authz, fetcher>>

\* lines 104-121 and 160-164: the loaders of fullDataRefresh settle; each one
\* that resolves sets its query data, and a rejection is caught and logged
RefreshSettles(i) ==
  /\ i \in DOMAIN updater.polls
  /\ updater.polls[i].pc = "refresh"
  /\ \E loaded \in SUBSET CacheKeys :
       updater' = [updater EXCEPT
         !.polls[i].pc = "done",
         !.polls[i].refresh = IF loaded = CacheKeys THEN "loaded" ELSE "failed",
         !.cache = [k \in CacheKeys |-> IF k \in loaded THEN SetBy("fullDataRefresh", i) ELSE @[k]]]
  /\ UNCHANGED <<env, links, source_task, source_state, source_catalog, req,
                 dispatches, raced, authz, fetcher>>

\* lines 174-177: the cleanup of the effect
Unmount ==
  /\ updater.isMounted
  /\ updater' = [updater EXCEPT !.isMounted = FALSE, !.aborted = TRUE]
  /\ UNCHANGED <<env, links, source_task, source_state, source_catalog, req,
                 dispatches, raced, authz, fetcher>>

InitUpdater ==
  /\ env = EnvConfigured
  /\ links = ("s1" :> RunnableLink) @@ ("s2" :> Link("s2"))
  /\ source_state = OtherStateRows
  /\ source_task = InitialTasks
  /\ source_catalog = CatalogRows
  /\ req = [r \in Reqs |-> IdleReq]
  /\ dispatches = [r \in Reqs |-> <<>>]
  /\ raced = {}
  /\ authz = NotUsed /\ fetcher = NotUsed
  /\ updater = Mounted

NextUpdater ==
  \/ LoadSettles
  \/ IntervalFires
  \/ \E i \in 1..MaxTicks : IfModifiedSettles(i)
  \/ \E i \in 1..MaxTicks : RefreshSettles(i)
  \/ Unmount

SpecUpdater == InitUpdater /\ [][NextUpdater]_vars


(***************************************************************************)
(* jsonFetcher: one call of the function it returns                         *)
(***************************************************************************)
MaxTextLen == 4

JNum(n) == [t |-> "num", v |-> n]

\* JSON texts are sequences of the tokens "[", "]", "," and "0"; the empty
\* sequence is the empty string
JsonTokens == {"[", "]", ",", "0"}
Texts == UNION {[1..n -> JsonTokens] : n \in 0..MaxTextLen}

NoParse == [ok |-> FALSE, value |-> Undefined, rest |-> <<>>]

\* JSON.parse, by recursive descent over the tokens: a value is 0 or an array
\* of values; ParseValue reads one value off the front of s, ParseElements the
\* rest of an array after its "["
RECURSIVE ParseValue(_), ParseElements(_, _)
ParseValue(s) ==
  IF s = <<>> THEN NoParse
  ELSE IF Head(s) = "0" THEN [ok |-> TRUE, value |-> JNum(0), rest |-> Tail(s)]
  ELSE IF Head(s) = "["
    THEN IF Tail(s) # <<>> /\ Head(Tail(s)) = "]"
         THEN [ok |-> TRUE, value |-> JArr(<<>>), rest |-> Tail(Tail(s))]
         ELSE ParseElements(Tail(s), <<>>)
  ELSE NoParse

ParseElements(s, acc) ==
  LET first == ParseValue(s)
  IN IF ~first.ok \/ first.rest = <<>> THEN NoParse
     ELSE IF Head(first.rest) = "]"
       THEN [ok |-> TRUE, value |-> JArr(Append(acc, first.value)),
             rest |-> Tail(first.rest)]
     ELSE IF Head(first.rest) = ","
       THEN ParseElements(Tail(first.rest), Append(acc, first.value))
     ELSE NoParse

\* JSON.parse(text): the value, or a SyntaxError when the text is not one value
JsonParse(text) ==
  LET r == ParseValue(text)
  IN IF r.ok /\ r.rest = <<>> THEN [ok |-> TRUE, value |-> r.value] ELSE [ok |-> FALSE]

\* JSON.stringify of the values a body may be
RECURSIVE JsonStringify(_)
JsonStringify(x) ==
  IF x.t = "num" THEN <<"0">>
  ELSE IF x.t = "bool" THEN IF x.v THEN <<"true">> ELSE <<"false">>
  ELSE IF x.t = "null" THEN <<"null">>
  ELSE IF x.v = <<>> THEN <<"[", "]">>
  ELSE LET RECURSIVE Elements(_)
           Elements(s) ==
             IF Len(s) = 1 THEN JsonStringify(s[1])
             ELSE JsonStringify(s[1]) \o <<",">> \o Elements(Tail(s))
       IN <<"[">> \o Elements(x.v) \o <<"]">>

\* the options of a call: no options at all, or a method (absent, empty or
\* PUT) and a body (absent, null, false, 0, "", a text, true, an array)
FetchMethods == {Undefined, JStr(<<>>), JStr(<<"PUT">>)}
FetchBodies ==
  { Undefined, Null, JBool(FALSE), JNum(0), JStr(<<>>), JStr(<<"[", "0", "]">>),
    JBool(TRUE), JArr(<<JNum(0), JArr(<<>>)>>) }
FetchOptions ==
  {Undefined} \cup {[t |-> "obj", method |-> m, body |-> b] : m \in FetchMethods,
                                                              b \in FetchBodies}

\* options?.method and options?.body
OptionOf(options, field) == IF options = Undefined THEN Undefined ELSE options[field]

\* a method chosen by whether a body was passed at all
RequestMethodBodyPassed(options) ==
  IF OptionOf(options, "method") # Undefined THEN OptionOf(options, "method")
  ELSE IF OptionOf(options, "body") # Undefined THEN JStr(<<"POST">>)
  ELSE JStr(<<"GET">>)

\* line 42: the method of the request
RequestMethod(options) ==
  IF Truthy(OptionOf(options, "method")) THEN OptionOf(options, "method")
  ELSE IF Truthy(OptionOf(options, "body")) THEN JStr(<<"POST">>)
  ELSE JStr(<<"GET">>)

\* lines 43-44: the body of the request
BodyStr(options) ==
  LET body == OptionOf(options, "body")
  IN IF body.t = "str" THEN body
     ELSE IF Truthy(body) THEN JStr(JsonStringify(body))
     ELSE Undefined

\* what fetch may come to: a response (ok for the statuses below 300) with
\* any text as its body, or a rejection
FetchResponses ==
  {[status |-> st, ok |-> st < 300, text |-> tx] : st \in {200, 204, 404, 500},
                                                   tx \in Texts}
FetchOutcomes ==
  {[rejected |-> TRUE]} \cup {[rejected |-> FALSE, response |-> rs] : rs \in FetchResponses}

JsonFetchError(responseStatus) ==
  [class |-> "JsonFetchError", responseStatus |-> responseStatus]

Returns(value) == [kind |-> "returned", value |-> value]
Throws(error) == [kind |-> "thrown", error |-> error]

\* lines 66-85 with the test of response.ok after the parse
FetchResultParseFirst(response) ==
  IF response.text = <<>> THEN Returns(Undefined)
  ELSE IF JsonParse(response.text).ok THEN Returns(JsonParse(response.text).value)
  ELSE IF ~response.ok THEN Throws(JsonFetchError(response.status))
  ELSE Throws([class |-> "Error"])

\* lines 55-85: what the call comes to for a response (the texts of the
\* errors are left out)
FetchResult(response) ==
  IF ~response.ok THEN Throws(JsonFetchError(response.status))
  ELSE IF response.text = <<>> THEN Returns(Undefined)
  ELSE IF JsonParse(response.text).ok THEN Returns(JsonParse(response.text).value)
  ELSE Throws([class |-> "Error"])

\* lines 41-54: the call builds its request and hands it to fetch
FetcherCall ==
  /\ fetcher.pc = "called"
  /\ fetcher' = [fetcher EXCEPT
       !.pc = "awaiting",
       !.request = [method |-> RequestMethod(fetcher.options),
                    body |-> BodyStr(fetcher.options),
                    headers |-> {"Content-Type", "Accept"}]]
  /\ UNCHANGED <<env, links, source_task, source_state, source_catalog, req,
                 dispatches, raced, authz, updater>>

\* lines 45-85: fetch settles; its rejection is the call's
FetcherSettles ==
  /\ fetcher.pc = "awaiting"
  /\ \E out \in FetchOutcomes :
       fetcher' = [fetcher EXCEPT
         !.pc = "settled",
         !.outcome = out,
         !.result = IF out.rejected THEN Throws([class |-> "fetch failed"])
                    ELSE FetchResult(out.response)]
  /\ UNCHANGED <<env, links, source_task, source_state, source_catalog, req,
                 dispatches, raced, authz, updater>>

InitFetcher ==
  /\ env = EnvConfigured
  /\ links = ("s1" :> RunnableLink) @@ ("s2" :> Link("s2"))
  /\ source_state = OtherStateRows
  /\ source_task = InitialTasks
  /\ source_catalog = CatalogRows
  /\ req = [r \in Reqs |-> IdleReq]
  /\ dispatches = [r \in Reqs |-> <<>>]
  /\ raced = {}
  /\ authz = NotUsed /\ updater = NotUsed
  /\ \E options \in FetchOptions :
       fetcher = [pc |-> "called", options |-> options, request |-> Undefined,
                  outcome |-> Undefined, result |-> Undefined]

NextFetcher == FetcherCall \/ FetcherSettles

SpecFetcher == InitFetcher /\ [][NextFetcher]_vars

(***************************************************************************)
(* Properties                                                              *)
(***************************************************************************)
\* the RUNNING rows of a sync, as the table holds them
RunningNow(syncId) == {t \in source_task : t.sync_id = syncId /\ t.status = "RUNNING"}

\* the syncIds that the links, the tasks and the requests speak of
KnownSyncIds == DOMAIN links \cup {t.sync_id : t \in source_task}

Has(rec, field) == field \in DOMAIN rec

\* request r has returned the already-running result for task id
ReturnedRunning(r, id) ==
  /\ req[r].pc = "returned"
  /\ Has(req[r].result, "runningTask")
  /\ req[r].result.ok = FALSE
  /\ req[r].result.runningTask.taskId = id

\* C1, as stated: in every reachable state every syncId has at most one task
\* in status RUNNING, whatever the number and interleaving of the runSync
\* requests for it.
C1_AtMostOneRunning ==
  \A syncId \in KnownSyncIds : Cardinality(RunningNow(syncId)) <= 1

\* C1, amended: a syncId has at most one RUNNING task as long as no request for
\* it passed the RUNNING check while another request for it had passed the
\* check and not yet dispatched.
C1_AtMostOneRunningUnlessRaced ==
  \A syncId \in KnownSyncIds \ raced : Cardinality(RunningNow(syncId)) <= 1

\* two requests for s1 were handled one after the other: the first started a
\* task, the second was refused because of it
C1_Witness ==
  /\ "s1" \notin raced
  /\ \E r1, r2 \in Reqs :
       /\ req[r1].pc = "returned" /\ req[r1].result.ok
       /\ ReturnedRunning(r2, req[r1].result.taskId)

\* C2: a request whose RUNNING check finds a RUNNING task of the sync returns
\* ok=false with runningTask.taskId the id of such a task, and does nothing
\* else: no dispatch, no taskId, no checkpoint row deleted or changed, nothing
\* read but the link and the task, whatever fullSync is.
C2_AlreadyRunningNoSideEffects ==
  [][\A r \in Reqs :
       (/\ req[r].pc = "findRunning"
        /\ "task.read" \in req'[r].touched
        /\ RunningNow(req[r].query.syncId) # {})
       => /\ req'[r].pc = "returned"
          /\ Has(req'[r].result, "runningTask")
          /\ req'[r].result.ok = FALSE
          /\ req'[r].result.runningTask.taskId
               \in {t.task_id : t \in RunningNow(req[r].query.syncId)}
          /\ ~Has(req'[r].result, "taskId")
          /\ req'[r].touched = {"link.read", "task.read"}
          /\ dispatches' = dispatches
          /\ source_state' = source_state
          /\ source_task' = source_task]_vars

\* a fullSync request was refused while the task runs; the checkpoint is intact
C2_Witness ==
  \E r \in Reqs :
    /\ ReturnedRunning(r, -1)
    /\ IsFullSync(req[r].query)
    /\ \E row \in source_state : row.sync_id = req[r].query.syncId
    /\ dispatches[r] = <<>>

\* C3: while a task that was RUNNING from the start is still RUNNING, every
\* request that made the RUNNING check for its sync, in any interleaving with
\* the others, returned the already-running result with that task's id; so any
\* two of them carry the same runningTask.taskId.
C3_BothAlreadyRunning ==
  \A t \in InitialTasks \cap source_task :
    \A r1, r2 \in Reqs :
      (/\ r1 # r2
       /\ req[r1].query.syncId = t.sync_id /\ "task.read" \in req[r1].touched
       /\ req[r2].query.syncId = t.sync_id /\ "task.read" \in req[r2].touched)
      => /\ ReturnedRunning(r1, t.task_id)
         /\ ReturnedRunning(r2, t.task_id)
         /\ req[r1].result.runningTask.taskId = req[r2].result.runningTask.taskId

C3_Witness ==
  /\ TaskRow(-1, "s1", "RUNNING") \in source_task
  /\ \E r1, r2 \in Reqs : r1 # r2 /\ ReturnedRunning(r1, -1) /\ ReturnedRunning(r2, -1)

\* the link a query names is soft-deleted, of another workspace or not a sync
LinkHidden(query) ==
  /\ query.syncId \in DOMAIN links
  /\ \/ links[query.syncId].deleted
     \/ links[query.syncId].workspaceId # query.workspaceId
     \/ links[query.syncId].type # "sync"

\* C4: a request that looked up a link that is soft-deleted, of another
\* workspace or not a sync has returned ok=false with the "Sync not found"
\* error, whatever else is stored; it read nothing else, deleted no checkpoint
\* row and issued no dispatch.
C4_HiddenLinkNotFound ==
  \A r \in Reqs :
    (LinkHidden(req[r].query) /\ "link.read" \in req[r].touched)
    => /\ req[r].pc = "returned"
       /\ req[r].result = [ok |-> FALSE, error |-> <<"Sync not found", req[r].query.syncId>>]
       /\ req[r].touched = {"link.read"}
       /\ dispatches[r] = <<>>

\* fullSync was asked for a soft-deleted link whose sync has a RUNNING task and
\* a checkpoint: not found, and both are still there
C4_Witness ==
  \E r \in Reqs :
    /\ links["s1"].deleted
    /\ req[r].query = Query("w1", "s1", "true")
    /\ req[r].pc = "returned"
    /\ RunningNow("s1") # {}
    /\ \E row \in source_state : row.sync_id = "s1"

\* the request asked for a full sync
AskedFullSync(r) == req[r].query.fullSync \in {"true", "1"}

\* the request is past the step that loads the checkpoint
PastLoad(r) ==
  \/ req[r].pc \in {"prepare", "dispatch"}
  \/ req[r].pc = "returned" /\ req[r].touched \cap {"state.read", "state.delete"} # {}

\* C5: once a fullSync request is past the load, it holds no checkpoint state,
\* no row of its sync is left in source_state, and the request it sends to the
\* sync controller has no state field.
C5_FullSyncNoState ==
  \A r \in Reqs :
    (AskedFullSync(r) /\ PastLoad(r))
    => /\ req[r].stateObj = Undefined
       /\ ~\E row \in source_state : row.sync_id = req[r].query.syncId
       /\ \A i \in DOMAIN dispatches[r] : ~Has(dispatches[r][i].request.body, "state")

\* a fullSync request was dispatched for a sync whose checkpoint another
\* request had read and sent before
C5_Witness ==
  \E r1, r2 \in Reqs :
    /\ AskedFullSync(r1) /\ Len(dispatches[r1]) = 1
    /\ Len(dispatches[r2]) = 1 /\ Has(dispatches[r2][1].request.body, "state")
    /\ req[r1].query.syncId = req[r2].query.syncId

\* the result says that the request got as far as the dispatch call
ResultOfDispatch(res) ==
  \/ Has(res, "taskId")
  \/ res = [ok |-> FALSE, error |-> <<"Error running sync", "fetch failed">>]

\* C6: a request never issues more than one dispatch call; it has issued
\* exactly one when it returned the result of a dispatch (the task handle, the
\* controller's refusal or the failure of the call), and none on every other
\* path and while it is still being handled.
C6_ExactlyOneDispatch ==
  \A r \in Reqs :
    /\ Len(dispatches[r]) <= 1
    /\ Len(dispatches[r]) = 1
         <=> (req[r].pc = "returned" /\ ResultOfDispatch(req[r].result))

C6_Witness ==
  \E r \in Reqs : req[r].pc = "returned" /\ req[r].result.ok /\ Len(dispatches[r]) = 1

\* the calls of r that the sync controller answered with ok=false and an error
Refused(r) ==
  {i \in DOMAIN dispatches[r] :
     /\ ~dispatches[r][i].outcome.throws
     /\ ~dispatches[r][i].outcome.res.ok
     /\ Has(dispatches[r][i].outcome.res, "error")}

\* C7: when the sync controller answers a dispatch with ok=false and error e,
\* the request returns exactly {ok:false, error:e, taskId} with the taskId it
\* sent, and no other dispatch carried that taskId.
C7_RefusedKeepsTaskId ==
  \A r \in Reqs : \A i \in Refused(r) :
    /\ req[r].pc = "returned"
    /\ req[r].result = [ok |-> FALSE,
                        error |-> dispatches[r][i].outcome.res.error,
                        taskId |-> dispatches[r][i].request.query.taskId]
    /\ \A o \in Reqs \ {r} : \A j \in DOMAIN dispatches[o] :
         dispatches[o][j].request.query.taskId # dispatches[r][i].request.query.taskId

\* two dispatches, the later one refused with "boom"
C7_Witness ==
  \E r, o \in Reqs :
    /\ r # o /\ Refused(r) # {} /\ Len(dispatches[o]) = 1
    /\ req[r].result.error = <<"boom">>

\* C8, as stated: every dispatch that failed, by a not-ok answer or by the call
\* itself throwing, ends in a result that carries the taskId that was sent.
C8_FailureKeepsTaskId ==
  \A r \in Reqs : \A i \in DOMAIN dispatches[r] :
    (dispatches[r][i].outcome.throws \/ ~dispatches[r][i].outcome.res.ok)
    => /\ req[r].pc = "returned"
       /\ Has(req[r].result, "taskId")
       /\ req[r].result.taskId = dispatches[r][i].request.query.taskId

C10_NoFaultEscapes ==
  \A r \in Reqs : req[r].validated => req[r].pc # "thrown"

(***************************************************************************)
(* Properties of the checkpoint load                                        *)
(***************************************************************************)
\* the checkpoint rows a sync has in the table
CheckpointOf(syncId) == {row \in source_state : row.sync_id = syncId}

\* the number of "."-separated segments of a stream key
Segments(key) == Cardinality({i \in DOMAIN key : key[i] = "."}) + 1

Reserved(key) == key \in {<<"_LEGACY_STATE">>, <<"_GLOBAL_STATE">>}

\* the request read the checkpoint (fullSync false) and holds what it loaded
Loaded(r) == req[r].pc \in {"prepare", "dispatch"} /\ "state.read" \in req[r].touched

\* C11: a request that read, with fullSync false, a checkpoint with a row whose
\* stream key has three or more segments has returned ok=false, the failure of
\* the run; it kept no state, generated no taskId and issued no dispatch,
\* whatever the other rows are.
C11_InvalidKeyAbortsLoad ==
  \A r \in Reqs :
    (/\ "state.read" \in req[r].touched
     /\ \E row \in CheckpointOf(req[r].query.syncId) : Segments(row.stream) >= 3)
    => /\ req[r].pc = "returned"
       /\ req[r].result = [ok |-> FALSE,
                           error |-> <<"Error running sync", "Invalid stream name">>]
       /\ req[r].stateObj = Undefined
       /\ "randomUUID" \notin req[r].touched
       /\ dispatches[r] = <<>>

\* the load failed on a checkpoint with a well-formed row next to the bad one
C11_Witness ==
  \E r \in Reqs :
    /\ "state.read" \in req[r].touched
    /\ req[r].pc = "returned" /\ ~req[r].result.ok
    /\ \E good, bad \in CheckpointOf(req[r].query.syncId) :
         Segments(good.stream) = 1 /\ Segments(bad.stream) >= 3

\* the STREAM entry the rows of a per-stream checkpoint stand for: the key "n"
\* is {name: n, namespace: undefined}, the key "ns.n" is {name: n, namespace: ns}
EntryFor(row) ==
  LET key == row.stream
      dot == CHOOSE i \in DOMAIN key : key[i] = "."
  IN [type |-> "STREAM",
      stream |->
        [stream_descriptor |->
           IF Segments(key) = 1
           THEN [name |-> JStr(key), namespace |-> Undefined]
           ELSE [name |-> JStr(SubSeq(key, dot + 1, Len(key))),
                 namespace |-> JStr(SubSeq(key, 1, dot - 1))],
         stream_state |-> row.state]]

\* v is a list with exactly one entry per row, the entry of that row
StreamListOf(v, rows) ==
  /\ v.t = "arr"
  /\ Len(v.v) = Cardinality(rows)
  /\ \A row \in rows : \E i \in DOMAIN v.v : v.v[i] = EntryFor(row)

\* the checkpoint has rows, all per-stream with keys of one or two segments
PerStreamOnly(rows) ==
  /\ rows # {}
  /\ \A row \in rows : ~Reserved(row.stream) /\ Segments(row.stream) <= 2

\* C12: with fullSync false and a checkpoint of per-stream rows with keys of
\* one or two segments, the state the request loaded, and the state it sends,
\* is a list with exactly one STREAM entry per row: {name: n, namespace:
\* undefined} for the key "n", {name: n, namespace: ns} for "ns.n", each with
\* the blob of its row as stream_state.
C12_PerStreamDecode ==
  \A r \in Reqs :
    (~AskedFullSync(r) /\ PerStreamOnly(CheckpointOf(req[r].query.syncId)))
    => /\ Loaded(r) => StreamListOf(req[r].stateObj, CheckpointOf(req[r].query.syncId))
       /\ \A i \in DOMAIN dispatches[r] :
            /\ Has(dispatches[r][i].request.body, "state")
            /\ StreamListOf(dispatches[r][i].request.body.state,
                            CheckpointOf(req[r].query.syncId))

\* the rows "customers" and "ns1.orders" were sent as two STREAM entries
C12_Witness ==
  \E r \in Reqs :
    /\ Len(dispatches[r]) = 1
    /\ {row.stream : row \in CheckpointOf(req[r].query.syncId)}
         = {<<"customers">>, <<"ns1", ".", "orders">>}
    /\ Len(dispatches[r][1].request.body.state.v) = 2

\* C13, as stated: with fullSync false and a checkpoint of exactly one row, the
\* state sent is the blob of the row itself when the row is _LEGACY_STATE, and
\* the one-element list [{type: GLOBAL, global: blob}] when it is _GLOBAL_STATE.
C13_LegacyGlobalDecode ==
  \A r \in Reqs : \A i \in DOMAIN dispatches[r] :
    \A row \in CheckpointOf(req[r].query.syncId) :
      (~AskedFullSync(r) /\ CheckpointOf(req[r].query.syncId) = {row})
      => /\ row.stream = <<"_LEGACY_STATE">>
            => /\ Has(dispatches[r][i].request.body, "state")
               /\ dispatches[r][i].request.body.state = row.state
         /\ row.stream = <<"_GLOBAL_STATE">>
            => /\ Has(dispatches[r][i].request.body, "state")
               /\ dispatches[r][i].request.body.state
                    = JArr(<<[type |-> "GLOBAL", global |-> row.state]>>)

\* C14: a request that read an empty checkpoint loaded no state, and a request
\* sent for a sync without checkpoint rows has no state field; a request that
\* has a state field was sent with fullSync false for a sync with checkpoint
\* rows, and the field is the state that was loaded.
C14_NoRowsNoState ==
  \A r \in Reqs :
    /\ (Loaded(r) /\ CheckpointOf(req[r].query.syncId) = {})
       => req[r].stateObj = Undefined
    /\ \A i \in DOMAIN dispatches[r] :
         /\ CheckpointOf(req[r].query.syncId) = {}
            => ~Has(dispatches[r][i].request.body, "state")
         /\ Has(dispatches[r][i].request.body, "state")
            => /\ ~AskedFullSync(r)
               /\ CheckpointOf(req[r].query.syncId) # {}
               /\ dispatches[r][i].request.body.state # Undefined

\* a sync that never had a checkpoint was dispatched, fullSync false
C14_Witness ==
  \E r \in Reqs :
    /\ ~AskedFullSync(r)
    /\ "state.read" \in req[r].touched
    /\ CheckpointOf(req[r].query.syncId) = {}
    /\ Len(dispatches[r]) = 1
    /\ ~Has(dispatches[r][1].request.body, "state")

(***************************************************************************)
(* Properties of the stream selection                                       *)
(***************************************************************************)
\* the catalog stored for the link of a sync, and the selection of the link
CatalogOf(syncId) ==
  (CHOOSE c \in source_catalog : c.key = links[syncId].data.storageKey).catalog

SelectionOf(syncId) == links[syncId].data.streams

\* the key of a catalog stream: "namespace.name" when it has a namespace
KeyOfStream(s) ==
  IF s.namespace.t = "str" THEN s.namespace.v \o <<".">> \o s.name.v ELSE s.name.v

\* the entries of the configured catalog that a request sent
Emitted(r, i) == dispatches[r][i].request.body.catalog.streams

\* C15, as stated: the configured catalog that is sent has an entry for a
\* catalog stream if and only if the selection has an entry for the stream's
\* key, in the order of the catalog: unselected streams are dropped, selection
\* keys without a catalog stream add nothing.
C15_SelectedIffInSelection ==
  \A r \in Reqs : \A i \in DOMAIN dispatches[r] :
    LET syncId == req[r].query.syncId
        selected(s) == KeyOfStream(s) \in DOMAIN SelectionOf(syncId)
    IN [j \in DOMAIN Emitted(r, i) |-> Emitted(r, i)[j].stream]
         = SelectSeq(CatalogOf(syncId).streams, selected)

\* the fields of the directive the selection holds for a key
DirectiveFields(selection, key) ==
  IF key \in DOMAIN selection /\ selection[key].t = "obj"
  THEN selection[key].v ELSE <<>>

\* C16: every entry of a configured catalog that is sent has
\* destination_sync_mode "overwrite" and as stream a stream descriptor of the
\* catalog, whole, whatever the directive of that stream says; every other
\* field of the directive is in the entry unchanged, and nothing else is.
C16_OverwriteAndDescriptor ==
  \A r \in Reqs : \A i \in DOMAIN dispatches[r] : \A j \in DOMAIN Emitted(r, i) :
    LET e == Emitted(r, i)[j]
        syncId == req[r].query.syncId
        own == DirectiveFields(SelectionOf(syncId), KeyOfStream(e.stream))
    IN /\ e.destination_sync_mode = "overwrite"
       /\ e.stream \in Range(CatalogOf(syncId).streams)
       /\ DOMAIN e = DOMAIN own \cup {"destination_sync_mode", "stream"}
       /\ \A f \in DOMAIN own \ {"destination_sync_mode", "stream"} : e[f] = own[f]

\* an entry was sent for a stream whose directive has a destination_sync_mode
\* and a stream of its own
C16_Witness ==
  \E r \in Reqs : \E i \in DOMAIN dispatches[r] : \E j \in DOMAIN Emitted(r, i) :
    LET own == DirectiveFields(SelectionOf(req[r].query.syncId),
                               KeyOfStream(Emitted(r, i)[j].stream))
    IN /\ "stream" \in DOMAIN own
       /\ own.destination_sync_mode = "append"
       /\ Emitted(r, i)[j].sync_mode = "full_refresh"

(***************************************************************************)
(* Properties of the catalog lookup, the credentials and the order of the   *)
(* steps                                                                    *)
(***************************************************************************)
\* the catalog rows stored for the (storageKey, package, version) of a link
CatalogRowsFor(link) ==
  {c \in source_catalog : /\ c.key = link.data.storageKey
                          /\ c.package = link.from.config.package
                          /\ c.version = link.from.config.version}

\* C17: a request that looked the catalog up when none is stored for the
\* (storageKey, package, version) of its sync has returned, as a result and not
\* as a caught exception, ok=false with the "Catalog not found" error; it
\* generated no taskId and issued no dispatch.
C17_CatalogNotFound ==
  \A r \in Reqs :
    (/\ "catalog.read" \in req[r].touched
     /\ CatalogRowsFor(links[req[r].query.syncId]) = {})
    => /\ req[r].pc = "returned"
       /\ req[r].result = [ok |-> FALSE, error |-> <<"Catalog not found">>]
       /\ "randomUUID" \notin req[r].touched
       /\ dispatches[r] = <<>>

\* the link names a storageKey no catalog is stored for; the checkpoint was
\* read and is still there
C17_Witness ==
  \E r \in Reqs :
    /\ links["s1"].data.storageKey = "key2"
    /\ req[r].touched = {"link.read", "task.read", "state.read", "catalog.read"}
    /\ req[r].pc = "returned"
    /\ CheckpointOf("s1") # {}

\* the request returned the failure of the credential resolution
CredentialsFailed(r) ==
  /\ req[r].pc = "returned"
  /\ req[r].result = [ok |-> FALSE,
                      error |-> <<"Error running sync", "oauth refresh failed">>]

\* C18: a request whose credential resolution failed returned ok=false and
\* issued no dispatch; and every dispatch that is issued carries the config
\* the credential resolver returned, never the stored one.
C18_NoDispatchOnCredentialFailure ==
  \A r \in Reqs :
    /\ CredentialsFailed(r) => dispatches[r] = <<>> /\ "dispatch" \notin req[r].touched
    /\ \A i \in DOMAIN dispatches[r] :
         /\ dispatches[r][i].request.body.config.credentials = "resolved"
         /\ dispatches[r][i].request.body.config.credentials
              # links[req[r].query.syncId].from.config.credentials

\* the catalog was found and the taskId generated, then the credentials failed
C18_Witness ==
  \E r \in Reqs :
    /\ CredentialsFailed(r)
    /\ "randomUUID" \in req[r].touched
    /\ \A o \in Reqs : dispatches[o] = <<>>

\* C19: nothing but the RUNNING check stands between a request and its
\* dispatch: a request that passed the check and is about to dispatch can
\* dispatch, whatever task rows have been recorded since; and the dispatches of
\* two requests never carry the same taskId. So two requests for one syncId
\* that both passed the check dispatch twice, with two taskIds.
C19_RaceDispatchesTwice ==
  /\ \A r \in Reqs : req[r].pc = "dispatch" => ENABLED Dispatch(r)
  /\ \A r1, r2 \in Reqs : \A i \in DOMAIN dispatches[r1] : \A j \in DOMAIN dispatches[r2] :
       r1 # r2 => dispatches[r1][i].request.query.taskId
                    # dispatches[r2][j].request.query.taskId

\* both requests passed the RUNNING check of s1 before either dispatched, and
\* both dispatched
C19_Witness ==
  \E r1, r2 \in Reqs :
    /\ r1 # r2
    /\ "s1" \in raced
    /\ Len(dispatches[r1]) = 1 /\ Len(dispatches[r2]) = 1
    /\ dispatches[r1][1].request.query.syncId = "s1"
    /\ dispatches[r2][1].request.query.syncId = "s1"
    /\ dispatches[r1][1].request.query.taskId # dispatches[r2][1].request.query.taskId

\* C20: a fullSync request that got as far as the catalog lookup, the taskId
\* or the dispatch had deleted the checkpoint before; and once it has deleted
\* it, a request that returns ok=false (catalog not found, credentials,
\* dispatch refused or thrown) leaves no checkpoint row of its sync.
C20_DeleteBeforeFailure ==
  \A r \in Reqs :
    AskedFullSync(r)
    => /\ req[r].touched \cap {"catalog.read", "randomUUID", "dispatch"} # {}
            => "state.delete" \in req[r].touched /\ "state.read" \notin req[r].touched
       /\ (/\ req[r].pc = "returned" /\ ~req[r].result.ok
           /\ "state.delete" \in req[r].touched)
            => CheckpointOf(req[r].query.syncId) = {}

\* sync s1 started with a checkpoint and a link whose catalog is not stored:
\* the only request, a fullSync, failed on the catalog, and the checkpoint is
\* gone
C20_Witness ==
  \E r \in Reqs :
    /\ links["s1"].data.storageKey = "key2"
    /\ AskedFullSync(r)
    /\ req[r].pc = "returned"
    /\ req[r].result = [ok |-> FALSE, error |-> <<"Catalog not found">>]
    /\ \A o \in Reqs \ {r} : req[o].pc = "idle"
    /\ CheckpointOf("s1") = {}

\* the execution service has ended a task it was running
TaskEnded ==
  \E t \in source_task :
    /\ t.status = "RUNNING"
    /\ source_task' = (source_task \ {t}) \cup {[t EXCEPT !.status = "SUCCESS"]}

\* the execution service has taken the read request that r sent in this step
\* and recorded its task
TaskRecorded(r) ==
  /\ Len(dispatches'[r]) = Len(dispatches[r]) + 1
  /\ LET sent == dispatches'[r][Len(dispatches'[r])]
     IN /\ sent.outcome.recorded
        /\ source_task' =
             source_task \cup {TaskRow(sent.request.query.taskId,
                                       sent.request.query.syncId, "RUNNING")}

\* C21: no step of runSync creates, updates or deletes a task row: the task
\* table changes only by the execution service recording the task of a read
\* request it was sent, or ending a task. Checkpoint rows change only in the
\* load step of a request with fullSync true, and then rows are only removed
\* and only rows of that request's syncId.
C21_FrameEffects ==
  [][ /\ source_task' # source_task => (TaskEnded \/ \E r \in Reqs : TaskRecorded(r))
      /\ source_state' # source_state
           => \E r \in Reqs :
                /\ req[r].pc = "loadState" /\ req'[r].pc = "prepare"
                /\ AskedFullSync(r)
                /\ source_state' \subseteq source_state
                /\ \A row \in source_state \ source_state' :
                     row.sync_id = req[r].query.syncId ]_vars

\* a fullSync request for s1 deleted the checkpoint of s1 and was dispatched;
\* the execution service recorded its task, and the checkpoint of s2 is there
C21_Witness ==
  \E r \in Reqs :
    /\ AskedFullSync(r) /\ req[r].query.syncId = "s1"
    /\ "state.delete" \in req[r].touched
    /\ req[r].pc = "returned" /\ req[r].result.ok
    /\ TaskRow(req[r].result.taskId, "s1", "RUNNING") \in source_task
    /\ CheckpointOf("s1") = {}
    /\ OtherStateRows \subseteq source_state

\* the rows of the checkpoint that are not sentinel rows
StreamRows(syncId) == {row \in CheckpointOf(syncId) : ~Reserved(row.stream)}

\* the checkpoint has two or more rows, and a sentinel row among them
SentinelAmongMany(syncId) ==
  /\ Cardinality(CheckpointOf(syncId)) >= 2
  /\ \E row \in CheckpointOf(syncId) : Reserved(row.stream)

\* request r read the checkpoint and the load did not fail: r went on with a
\* list of one STREAM entry per non-sentinel row (the empty list when there is
\* none), and every request it has sent has that list as its state field
SentinelsDiscarded(r) ==
  /\ "state.read" \in req[r].touched
       => ~(/\ req[r].pc = "returned"
            /\ req[r].result = [ok |-> FALSE,
                                error |-> <<"Error running sync", "Invalid stream name">>])
  /\ Loaded(r) => StreamListOf(req[r].stateObj, StreamRows(req[r].query.syncId))
  /\ \A i \in DOMAIN dispatches[r] :
       /\ Has(dispatches[r][i].request.body, "state")
       /\ StreamListOf(dispatches[r][i].request.body.state,
                       StreamRows(req[r].query.syncId))

\* C22, as stated: with fullSync false and a checkpoint of two or more rows
\* with sentinel rows among them, the load does not fail, the state is the list
\* of one STREAM entry per non-sentinel row, empty when every row is a sentinel
\* row, and it is sent as the state field.
C22_SentinelsDiscarded ==
  \A r \in Reqs :
    (~AskedFullSync(r) /\ SentinelAmongMany(req[r].query.syncId))
    => SentinelsDiscarded(r)

\* C22, amended: the same, for checkpoints whose non-sentinel rows all have
\* keys of one or two segments.
C22_SentinelsDiscardedValidKeys ==
  \A r \in Reqs :
    (/\ ~AskedFullSync(r)
     /\ SentinelAmongMany(req[r].query.syncId)
     /\ \A row \in StreamRows(req[r].query.syncId) : Segments(row.stream) <= 2)
    => SentinelsDiscarded(r)

\* a checkpoint of the two sentinel rows was read and sent as the empty list
C22_Witness ==
  \E r \in Reqs :
    /\ ~AskedFullSync(r)
    /\ {row.stream : row \in CheckpointOf(req[r].query.syncId)}
         = {<<"_LEGACY_STATE">>, <<"_GLOBAL_STATE">>}
    /\ Len(dispatches[r]) = 1
    /\ dispatches[r][1].request.body.state = JArr(<<>>)

\* the header with a leading "Bearer " taken off
WithoutBearerPrefix(token) ==
  IF token # <<>> /\ Head(token) = "Bearer " THEN Tail(token) ELSE token

\* C23, as stated: a request is let through without the user session being
\* asked for (getUser is not called) only when the configured secret is not
\* empty, the Authorization header is not empty, and the header with its
\* "Bearer " prefix removed equals the secret; with no secret configured the
\* user session is asked for whatever the header is.
C23_SecretPathOnlyForSecret ==
  (authz.pc = "done" /\ ~authz.getUser)
  => /\ env.SYNCCTL_AUTH_KEY # <<>>
     /\ authz.token # <<>>
     /\ WithoutBearerPrefix(authz.token) = env.SYNCCTL_AUTH_KEY

(***************************************************************************)
(* Properties of useConfigObjectsUpdater                                    *)
(***************************************************************************)
\* what holds of the hook at every moment
UpdaterState ==
  /\ updater.loading = (updater.load = "pending")
  /\ updater.interval # "none" => updater.load = "resolved"
  /\ \A i \in DOMAIN updater.polls :
       /\ updater.polls[i].mounted
       /\ (updater.polls[i].pc = "refresh" \/ updater.polls[i].refresh # "none")
            => updater.polls[i].reply = "modified"
  /\ \A k \in CacheKeys :
       updater.cache[k].by = "fullDataRefresh"
         => updater.polls[updater.cache[k].poll].reply = "modified"
  /\ (updater.isMounted /\ \E i \in DOMAIN updater.polls : updater.polls[i].refresh = "failed")
       => updater.interval = "running"

\* what holds of every step of the hook
UpdaterStep ==
  /\ ~updater.loading => ~updater'.loading
  /\ updater'.modifiedSince # updater.modifiedSince
       => \E i \in DOMAIN updater.polls :
            updater.polls[i].pc = "ifModified" /\ updater'.polls[i].reply = "modified"
  /\ updater'.cache # updater.cache
       => \/ updater.load = "pending" /\ updater'.load # "pending"
          \/ \E i \in DOMAIN updater.polls :
               /\ updater.polls[i].pc = "refresh" /\ updater'.polls[i].pc = "done"
               /\ updater.polls[i].reply = "modified"
  /\ (\E i \in DOMAIN updater.polls :
        updater.polls[i].refresh = "none" /\ updater'.polls[i].refresh = "failed")
       => updater'.interval = updater.interval
  /\ ~updater.isMounted => Len(updater'.polls) = Len(updater.polls)

\* C24: loading is true exactly until the promise of initialDataLoad settles
\* and never true again; the interval exists only if that promise resolved;
\* every if-modified request was issued while the hook was mounted, and none
\* is issued after the cleanup; modifiedSince moves, the refresh is issued and
\* the cached lists and links are replaced by a poll only when its if-modified
\* request answered modified; a refresh that fails leaves the interval as it
\* was, running for a mounted hook.
C24_UpdaterLifecycle == [](UpdaterState) /\ [][UpdaterStep]_vars

\* the load resolved, one poll's refresh failed, a later poll refreshed the
\* cache, the hook was unmounted and the next firing cleared the interval
C24_Witness ==
  /\ ~updater.loading /\ ~updater.isMounted /\ updater.interval = "cleared"
  /\ \E i, j \in DOMAIN updater.polls :
       /\ i < j
       /\ updater.polls[i].refresh = "failed"
       /\ updater.polls[j].refresh = "loaded"
       /\ updater.cache["links"] = SetBy("fullDataRefresh", j)

(***************************************************************************)
(* Properties of jsonFetcher                                                *)
(***************************************************************************)
\* the JSON values of up to two levels of arrays of up to two elements: every
\* value whose text has no more than five tokens is one of them
JsonValues0 == {JNum(0), JArr(<<>>)}
JsonValues1 ==
  JsonValues0 \cup {JArr(s) : s \in UNION {[1..n -> JsonValues0] : n \in 1..2}}
JsonValues ==
  JsonValues1 \cup {JArr(s) : s \in UNION {[1..n -> JsonValues1] : n \in 1..2}}

\* the call has settled on a response
Answered == fetcher.pc = "settled" /\ ~fetcher.outcome.rejected

\* for a response with ok=false the call threw a JsonFetchError with the status
\* of the response; for ok=true it returned undefined for the empty body, the
\* value that the body is the JSON text of when there is one, and threw an
\* error otherwise
ResultFollowsResponse ==
  Answered =>
    LET response == fetcher.outcome.response
        result == fetcher.result
    IN IF ~response.ok
       THEN /\ result.kind = "thrown"
            /\ result.error = JsonFetchError(response.status)
       ELSE IF response.text = <<>> THEN result = Returns(Undefined)
       ELSE IF \E x \in JsonValues : JsonStringify(x) = response.text
         THEN /\ result.kind = "returned"
              /\ JsonStringify(result.value) = response.text
       ELSE /\ result.kind = "thrown"
            /\ result.error.class = "Error"

\* C25, as stated: the result follows the response as above, and the method of
\* the request is the one given in the options, else POST when the options
\* give a body, else GET (an empty method, and a body of undefined or null,
\* taken as not given).
C25_FetcherContract ==
  /\ ResultFollowsResponse
  /\ fetcher.pc # "called"
       => fetcher.request.method =
            IF OptionOf(fetcher.options, "method") \notin {Undefined, JStr(<<>>)}
            THEN OptionOf(fetcher.options, "method")
            ELSE IF OptionOf(fetcher.options, "body") \notin {Undefined, Null}
            THEN JStr(<<"POST">>)
            ELSE JStr(<<"GET">>)

\* a value that JavaScript takes for false: undefined, null, false, 0, ""
Falsy(x) == x \in {Undefined, Null, JBool(FALSE), JNum(0), JStr(<<>>)}

\* C25, amended: the result follows the response as above, and the method of
\* the request is the one given in the options unless that is absent or
\* empty, else POST when the options give a body other than null, false, 0
\* and "", else GET.
C25_FetcherContractTruthy ==
  /\ ResultFollowsResponse
  /\ fetcher.pc # "called"
       => fetcher.request.method =
            IF ~Falsy(OptionOf(fetcher.options, "method"))
            THEN OptionOf(fetcher.options, "method")
            ELSE IF ~Falsy(OptionOf(fetcher.options, "body"))
            THEN JStr(<<"POST">>)
            ELSE JStr(<<"GET">>)

\* a call with the body 0 and no method went out as GET, and threw a
\* JsonFetchError for a 404 whose body is the JSON text [0]
C25_Witness ==
  /\ Answered
  /\ fetcher.options = [t |-> "obj", method |-> Undefined, body |-> JNum(0)]
  /\ fetcher.request.method = JStr(<<"GET">>)
  /\ fetcher.outcome.response.status = 404
  /\ fetcher.outcome.response.text = <<"[", "0", "]">>
  /\ fetcher.result = Throws(JsonFetchError(404))

====
